---- MODULE Spec2Model ----
(***************************************************************************)
(* Model of the two programs of the repository:                            *)
(*   src/stock-analysis/app.py  the Streamlit stock dashboard              *)
(*   src/url-shortner/app2.py   the FastAPI short-code URL redirector      *)
(*                                                                         *)
(* Three specifications:                                                   *)
(*   Spec      the cached fetch_stock_data calls of a dashboard session    *)
(*   SpecPipe  one run of the Update branch on a fresh process:            *)
(*             fetch_stock_data, process_data, add_technical_indicators,   *)
(*             calculate_metrics                                           *)
(*   SpecUrl   the redirector: start-up load, POST /shorten/, GET /{code}  *)
(*                                                                         *)
(* Cells of a data frame are options: <<>> is NaN/None, <<v>> a number.    *)
(***************************************************************************)
EXTENDS Integers, Sequences, FiniteSets, TLC

VARIABLES
    cache,      \* st.cache_data store of fetch_stock_data: key -> entry
    call,       \* the last completed fetch_stock_data call, as its caller saw it
    pc,         \* position of the Update branch (SpecPipe)
    feed,       \* what the provider answers to the request of this run
    heap,       \* DataFrame objects by identity
    data,       \* the object the script's variable `data` refers to
    arg,        \* the object passed to the last add_technical_indicators call
    before,     \* contents of that object when the call was made
    metrics,    \* what calculate_metrics returned, or its fault
    url_db,     \* app2.py: the in-memory mapping, code -> long URL
    file,       \* app2.py: urls.json
    last,       \* app2.py: the last request handled, with its response
    stored      \* app2.py: the codes some shorten call has stored so far

dashVars == <<cache, call>>
pipeVars == <<pc, feed, heap, data, arg, before, metrics>>
urlVars  == <<url_db, file, last, stored>>
vars     == <<cache, call, pc, feed, heap, data, arg, before, metrics,
              url_db, file, last, stored>>

\* -------------------------------------------------------------- bounds
MaxRows    == 2    \* rows of an enumerated provider payload
MaxTs      == 2    \* wall-clock values of an enumerated row
MaxClose   == 1    \* close prices of an enumerated row: 0..MaxClose, or NaN
ScriptLen  == 3    \* provider answers scheduled for one fetch call
MaxEntries == 2    \* entries the result cache holds in the model
MaxAge     == 1    \* ticks an entry's age is counted up to
TickUnits  == 301  \* time units that pass with one tick
NumCodes   == 2    \* short codes generate_short_code can draw
MaxUrlLen  == 1    \* characters of a long_url

\* ------------------------------------------------------------ options
NaN == <<>>
Num(v) == <<v>>
IsNaN(x) == x = <<>>
Val(x) == x[1]

\* ------------------------------------------------------- data frames
\* A frame: the index's time zone, the dimension of its price columns (2 when
\* the provider returns (Price, Ticker) column pairs), whether the timestamps
\* are still the index and what they are called, the rows, and the indicator
\* columns added to it.
Zones == {"naive", "UTC", "US/Eastern"}

Offset(tz) == IF tz = "US/Eastern" THEN 0 - 5 ELSE 0

Bar(wall, c) ==
    [ts |-> wall, Open |-> c,
     High |-> IF IsNaN(c) THEN NaN ELSE Num(Val(c) + 1),
     Low |-> c, Close |-> c,
     Volume |-> IF IsNaN(c) THEN NaN ELSE Num(10 * (Val(c) + 1))]

\* yfinance names the index Date for daily bars (time-zone naive) and Datetime
\* for intraday bars (time-zone aware).
Frame(tz, ndim, rows) ==
    [tz |-> tz, ndim |-> ndim, indexed |-> TRUE,
     tsname |-> IF tz = "naive" THEN "Date" ELSE "Datetime",
     rows |-> rows, extra |-> <<>>]

\* pd.DataFrame()
EmptyFrame == Frame("naive", 1, <<>>)

\* DataFrame.empty
IsEmpty(f) == f.rows = <<>>

\* The instant a row's timestamp denotes.
Instant(f, i) == f.rows[i].ts - Offset(f.tz)

\* -------------------------------------------------- fetch_stock_data
Tickers == {"ADBE"}
Periods == {"1d", "1wk", "1mo", "1y", "max"}

interval_mapping ==
    [p \in Periods |->
        CASE p = "1d" -> "1m"
          [] p = "1wk" -> "30m"
          [] p = "1mo" -> "1d"
          [] p = "1y" -> "1wk"
          [] p = "max" -> "1wk"]

Errors == {"ConnectionError", "HTTPError 500"}

Raise(e) == [kind |-> "raise", err |-> e]
Answer(f) == [kind |-> "frame", frame |-> f]
Failed(o) == o.kind = "raise"

\* The provider's answers to the successive requests of one call: it raises e
\* on the first k requests and answers every later one with frame f. k = 0 is
\* a healthy provider, k = ScriptLen one that fails throughout.
Script(k, e, f) == [i \in 1..ScriptLen |-> IF i <= k THEN Raise(e) ELSE Answer(f)]

Scripts(frames) == {Script(k, e, f) : k \in 0..ScriptLen, e \in Errors, f \in frames}

NoDiag == <<>>

\* The arguments of yf.download: an explicit range for '1wk', else the period.
BuildRequest(ticker, period, interval) ==
    IF period = "1wk"
    THEN [ticker |-> ticker, interval |-> interval, range |-> "start=now-7d,end=now"]
    ELSE [ticker |-> ticker, interval |-> interval, range |-> period]

\* A variant that tries again, up to 3 times, while the provider raises.
RECURSIVE RetryFrom(_, _, _, _, _)
RetryFrom(ticker, period, interval, s, k) ==
    LET o == s[k] IN
    IF Failed(o)
    THEN IF k < 3
         THEN RetryFrom(ticker, period, interval, s, k + 1)
         ELSE [result |-> EmptyFrame, diag |-> <<"Error fetching data", o.err>>,
               attempts |-> k, raised |-> FALSE]
    ELSE IF IsEmpty(o.frame)
    THEN [result |-> EmptyFrame,
          diag |-> <<"No data available", ticker, period, interval>>,
          attempts |-> k, raised |-> FALSE]
    ELSE [result |-> o.frame, diag |-> NoDiag, attempts |-> k, raised |-> FALSE]

FetchBodyRetry(ticker, period, interval, s) ==
    RetryFrom(ticker, period, interval, s, 1)

\* A variant whose except branch returns the empty frame without st.error.
FetchBodySilent(ticker, period, interval, s) ==
    LET o == s[1] IN
    IF Failed(o)
    THEN [result |-> EmptyFrame, diag |-> NoDiag, attempts |-> 1, raised |-> FALSE]
    ELSE IF IsEmpty(o.frame)
    THEN [result |-> EmptyFrame,
          diag |-> <<"No data available", ticker, period, interval>>,
          attempts |-> 1, raised |-> FALSE]
    ELSE [result |-> o.frame, diag |-> NoDiag, attempts |-> 1, raised |-> FALSE]

\* A variant without the try/except: the provider's exception propagates.
FetchBodyNoExcept(ticker, period, interval, s) ==
    LET o == s[1] IN
    IF Failed(o)
    THEN [result |-> EmptyFrame, diag |-> NoDiag, attempts |-> 1, raised |-> TRUE]
    ELSE IF IsEmpty(o.frame)
    THEN [result |-> EmptyFrame,
          diag |-> <<"No data available", ticker, period, interval>>,
          attempts |-> 1, raised |-> FALSE]
    ELSE [result |-> o.frame, diag |-> NoDiag, attempts |-> 1, raised |-> FALSE]

\* The body of fetch_stock_data: one yf.download call inside try/except.
\* s[1] is what that call does; the later entries of s are never asked for.
FetchBody(ticker, period, interval, s) ==
    LET o == s[1] IN
    IF Failed(o)
    THEN [result |-> EmptyFrame, diag |-> <<"Error fetching data", o.err>>,
          attempts |-> 1, raised |-> FALSE]
    ELSE IF IsEmpty(o.frame)
    THEN [result |-> EmptyFrame,
          diag |-> <<"No data available", ticker, period, interval>>,
          attempts |-> 1, raised |-> FALSE]
    ELSE [result |-> o.frame, diag |-> NoDiag, attempts |-> 1, raised |-> FALSE]

\* @st.cache_data: the key is the argument tuple, no ttl and no max_entries are
\* given, and a hit returns the stored value and replays the stored st.error.
CacheKey(ticker, period, interval) == <<ticker, period, interval>>

NoCall ==
    [active |-> FALSE, key |-> <<>>, request |-> <<>>, script |-> <<>>,
     hit |-> FALSE, age |-> 0, attempts |-> 0, result |-> EmptyFrame,
     diag |-> NoDiag, raised |-> FALSE]

CachePut(c, key, entry) ==
    [k \in DOMAIN c \cup {key} |-> IF k = key THEN entry ELSE c[k]]

\* One call fetch_stock_data(ticker, period, interval_mapping[period]) against
\* cache c with the provider following s: the call as seen by the caller, and
\* the cache after it.
CachedFetch(c, ticker, period, s) ==
    LET interval == interval_mapping[period]
        key == CacheKey(ticker, period, interval)
    IN  IF key \in DOMAIN c
        THEN [call |-> [active |-> TRUE, key |-> key, request |-> <<>>,
                        script |-> <<>>, hit |-> TRUE, age |-> c[key].age,
                        attempts |-> 0, result |-> c[key].value,
                        diag |-> c[key].diag, raised |-> FALSE],
              cache |-> c]
        ELSE LET r == FetchBody(ticker, period, interval, s) IN
             [call |-> [active |-> TRUE, key |-> key,
                        request |-> BuildRequest(ticker, period, interval),
                        script |-> s, hit |-> FALSE, age |-> 0,
                        attempts |-> r.attempts, result |-> r.result,
                        diag |-> r.diag, raised |-> r.raised],
              cache |-> IF r.raised THEN c
                        ELSE CachePut(c, key,
                                 [value |-> r.result, diag |-> r.diag, age |-> 0])]

\* ------------------------------------------------------ process_data
\* tz_localize('UTC') when the index is naive, then tz_convert('US/Eastern'):
\* the wall-clock values move by the difference of the offsets.
\* reset_index makes the timestamps a column, rename calls it Datetime, and
\* the loop takes the first sub-column of every two-dimensional price column.
\* Rows are neither sorted nor dropped.
Localized(f) == IF f.tz = "naive" THEN [f EXCEPT !.tz = "UTC"] ELSE f

Converted(f, tz) ==
    [f EXCEPT !.tz = tz,
              !.rows = [i \in 1..Len(f.rows) |->
                          [f.rows[i] EXCEPT !.ts = @ - Offset(f.tz) + Offset(tz)]]]

\* A variant that also drops the rows with a NaN in a numeric column.
ProcessDataDropNa(f) ==
    LET g == Converted(Localized(f), "US/Eastern")
        ok(r) == /\ ~IsNaN(r.Open) /\ ~IsNaN(r.High) /\ ~IsNaN(r.Low)
                 /\ ~IsNaN(r.Close) /\ ~IsNaN(r.Volume)
    IN  [g EXCEPT !.indexed = FALSE, !.tsname = "Datetime", !.ndim = 1,
                  !.rows = SelectSeq(g.rows, ok)]

ProcessData(f) ==
    LET g == Converted(Localized(f), "US/Eastern")
    IN  [g EXCEPT !.indexed = FALSE, !.tsname = "Datetime", !.ndim = 1]

\* ------------------------------------------ add_technical_indicators
Window == 20

Closes(f) == [i \in 1..Len(f.rows) |-> f.rows[i].Close]

\* Values of the indicator columns are kept in thousandths.
Milli(x) == x * 1000

RECURSIVE SumTo(_, _, _)
SumTo(xs, lo, hi) == IF lo > hi THEN 0 ELSE Val(xs[lo]) + SumTo(xs, lo + 1, hi)

\* rolling(window, min_periods = window).mean()
SMA(xs, i) ==
    IF i < Window \/ \E j \in (i - Window + 1)..i : IsNaN(xs[j])
    THEN NaN
    ELSE Num(Milli(SumTo(xs, i - Window + 1, i)) \div Window)

\* ewm(span = window, min_periods = window, adjust = False).mean():
\* y[1] = x[1], y[t] = ((window - 1) * y[t-1] + 2 * x[t]) / (window + 1);
\* a NaN observation leaves the average where it was.
RECURSIVE Ewm(_, _)
Ewm(xs, i) ==
    IF i = 0 THEN NaN
    ELSE LET y == Ewm(xs, i - 1) IN
         IF IsNaN(xs[i]) THEN y
         ELSE IF IsNaN(y) THEN Num(Milli(Val(xs[i])))
         ELSE Num(((Window - 1) * Val(y) + 2 * Milli(Val(xs[i]))) \div (Window + 1))

Observed(xs, i) == Cardinality({j \in 1..i : ~IsNaN(xs[j])})

EMA(xs, i) == IF Observed(xs, i) < Window THEN NaN ELSE Ewm(xs, i)

\* The frame with the columns SMA_20 and EMA_20 set (lines 58-65).
WithIndicators(f) ==
    LET close_data == Closes(f)
        n == Len(f.rows)
        others == DOMAIN f.extra \ {"SMA_20", "EMA_20"}
    IN  [f EXCEPT !.extra =
            [c \in others \cup {"SMA_20", "EMA_20"} |->
                CASE c = "SMA_20" -> [i \in 1..n |-> SMA(close_data, i)]
                  [] c = "EMA_20" -> [i \in 1..n |-> EMA(close_data, i)]
                  [] OTHER -> f.extra[c]]]

\* --------------------------------------------------- calculate_metrics
Abs(x) == IF x < 0 THEN 0 - x ELSE x

RECURSIVE GCD(_, _)
GCD(a, b) == IF b = 0 THEN a ELSE GCD(b, a % b)

\* The quotient n / d, d # 0, as a fraction in lowest terms.
Rat(n, d) ==
    LET g == GCD(Abs(n), Abs(d))
        sgn == IF d < 0 THEN 0 - 1 ELSE 1
    IN  [num |-> sgn * (n \div g), den |-> sgn * (d \div g)]

Column(f, name) ==
    [i \in 1..Len(f.rows) |->
        CASE name = "Open" -> f.rows[i].Open
          [] name = "High" -> f.rows[i].High
          [] name = "Low" -> f.rows[i].Low
          [] name = "Close" -> f.rows[i].Close
          [] name = "Volume" -> f.rows[i].Volume]

\* Series.max(), Series.min() and Series.sum() skip NaN.
RECURSIVE ColMax(_, _)
ColMax(xs, i) ==
    IF i = 0 THEN NaN
    ELSE LET m == ColMax(xs, i - 1) IN
         IF IsNaN(xs[i]) THEN m
         ELSE IF IsNaN(m) \/ Val(xs[i]) > Val(m) THEN xs[i] ELSE m

RECURSIVE ColMin(_, _)
ColMin(xs, i) ==
    IF i = 0 THEN NaN
    ELSE LET m == ColMin(xs, i - 1) IN
         IF IsNaN(xs[i]) THEN m
         ELSE IF IsNaN(m) \/ Val(xs[i]) < Val(m) THEN xs[i] ELSE m

RECURSIVE ColSum(_, _)
ColSum(xs, i) ==
    IF i = 0 THEN 0
    ELSE ColSum(xs, i - 1) + (IF IsNaN(xs[i]) THEN 0 ELSE Val(xs[i]))

Fault(e) == [state |-> "fault", error |-> e]

\* Lines 46-53 with prev_close = p and last_close = l already read.
MetricsFrom(f, l, p) ==
    LET change == IF IsNaN(l) \/ IsNaN(p) THEN NaN ELSE Num(Val(l) - Val(p))
        n == Len(f.rows)
    IN  IF ~IsNaN(p) /\ Val(p) = 0
        THEN Fault("ZeroDivisionError")
        ELSE [state |-> "ok",
              last_close |-> l,
              change |-> change,
              pct_change |->
                  IF IsNaN(change) THEN NaN
                  ELSE LET q == Rat(Val(change), Val(p))
                       IN  Num(Rat(q.num * 100, q.den)),
              high |-> ColMax(Column(f, "High"), n),
              low |-> ColMin(Column(f, "Low"), n),
              volume |-> ColSum(Column(f, "Volume"), n)]

\* A variant that takes prev_close from the bar before the last one.
CalculateMetricsPrevBar(f) ==
    LET n == Len(f.rows) IN
    IF n < 2 THEN Fault("IndexError")
    ELSE MetricsFrom(f, f.rows[n].Close, f.rows[n - 1].Close)

\* float division by zero raises in Python, also when the dividend is NaN.
CalculateMetrics(f) ==
    LET n == Len(f.rows) IN
    IF n = 0 THEN Fault("IndexError")
    ELSE MetricsFrom(f, f.rows[n].Close, f.rows[1].Close)

\* ------------------------------------------ Spec: a dashboard session
\* Frames the provider answers with in Spec.
SessionFrames == {EmptyFrame, Frame("UTC", 1, <<Bar(1, Num(1))>>)}

UrlIdle ==
    /\ url_db = <<>>
    /\ file = [kind |-> "missing", pairs |-> <<>>]
    /\ last = [op |-> "none"]
    /\ stored = {}

PipeIdle ==
    /\ pc = "off"
    /\ feed = EmptyFrame
    /\ heap = <<>>
    /\ data = 0
    /\ arg = 0
    /\ before = EmptyFrame
    /\ metrics = [state |-> "none"]

DashIdle ==
    /\ cache = <<>>
    /\ call = NoCall

Init == DashIdle /\ PipeIdle /\ UrlIdle

\* fetch_stock_data(ticker, period, interval_mapping[period]), lines 92 and 190.
Fetch(ticker, period) ==
    /\ IF CacheKey(ticker, period, interval_mapping[period]) \in DOMAIN cache
       THEN LET r == CachedFetch(cache, ticker, period, <<>>) IN
            /\ call' = r.call
            /\ cache' = r.cache
       ELSE /\ Cardinality(DOMAIN cache) < MaxEntries
            /\ \E s \in Scripts(SessionFrames) :
                  LET r == CachedFetch(cache, ticker, period, s) IN
                  /\ call' = r.call
                  /\ cache' = r.cache
    /\ UNCHANGED <<pipeVars, urlVars>>

\* Time passes: every cached entry grows older by one tick.
Tick ==
    /\ \E k \in DOMAIN cache : cache[k].age < MaxAge
    /\ cache' = [k \in DOMAIN cache |->
                    [cache[k] EXCEPT !.age = IF @ < MaxAge THEN @ + 1 ELSE @]]
    /\ UNCHANGED <<call, pipeVars, urlVars>>

Next ==
    \/ \E t \in Tickers, p \in Periods : Fetch(t, p)
    \/ Tick

Spec == Init /\ [][Next]_vars

\* ------------------------- SpecPipe: the Update branch, lines 91 to 97
CloseVals == {NaN} \cup {Num(c) : c \in 0..MaxClose}

BarSet == {Bar(w, c) : w \in 1..MaxTs, c \in CloseVals}

ShortRows == UNION {[1..n -> BarSet] : n \in 0..MaxRows}

\* Longer payloads: n ascending bars, and five daily bars closing at
\* 100, 102, 101, 105, 110.
Ramp(n) == [i \in 1..n |-> Bar(i, Num(i % 3))]

FiveBars == [i \in 1..5 |-> Bar(i, Num(<<100, 102, 101, 105, 110>>[i]))]

LongRows == {Ramp(Window - 1), Ramp(Window), Ramp(Window + 1), FiveBars}

Payloads == {Frame(tz, nd, r) : tz \in Zones, nd \in {1, 2}, r \in ShortRows \cup LongRows}

InitPipe ==
    /\ DashIdle
    /\ UrlIdle
    /\ pc = "start"
    /\ feed \in Payloads
    /\ heap = <<>>
    /\ data = 0
    /\ arg = 0
    /\ before = EmptyFrame
    /\ metrics = [state |-> "none"]

\* Line 92: data = fetch_stock_data(ticker, time_period, interval_mapping[...]);
\* line 93 skips the branch when the frame is empty. The call returns a frame
\* object of its own.
Update(ticker, period) ==
    /\ pc = "start"
    /\ LET r == CachedFetch(cache, ticker, period, Script(0, "ConnectionError", feed)) IN
       /\ call' = r.call
       /\ cache' = r.cache
       /\ heap' = Append(heap, r.call.result)
       /\ data' = Len(heap) + 1
       /\ pc' = IF IsEmpty(r.call.result) THEN "skipped" ELSE "fetched"
    /\ UNCHANGED <<feed, arg, before, metrics, urlVars>>

\* Line 94: data = process_data(data). The frame is changed in place
\* (inplace=True, assignments to data.index and data[col]) and returned.
ProcessDataCall ==
    /\ pc = "fetched"
    /\ heap' = [heap EXCEPT ![data] = ProcessData(heap[data])]
    /\ pc' = "processed"
    /\ UNCHANGED <<cache, call, feed, data, arg, before, metrics, urlVars>>

\* A variant that works on data.copy() and returns the copy.
AddTechnicalIndicatorsOnCopy ==
    /\ pc = "processed"
    /\ arg' = data
    /\ before' = heap[data]
    /\ heap' = Append(heap, WithIndicators(heap[data]))
    /\ data' = Len(heap) + 1
    /\ pc' = "indicated"
    /\ UNCHANGED <<cache, call, feed, metrics, urlVars>>

\* Line 95: data = add_technical_indicators(data). The two columns are
\* assigned on the frame passed in, which is also what is returned.
AddTechnicalIndicatorsCall ==
    /\ pc = "processed"
    /\ arg' = data
    /\ before' = heap[data]
    /\ heap' = [heap EXCEPT ![data] = WithIndicators(heap[data])]
    /\ data' = data
    /\ pc' = "indicated"
    /\ UNCHANGED <<cache, call, feed, metrics, urlVars>>

\* Line 97: calculate_metrics(data). An exception ends the script run.
CalculateMetricsCall ==
    /\ pc = "indicated"
    /\ metrics' = CalculateMetrics(heap[data])
    /\ pc' = IF metrics'.state = "ok" THEN "measured" ELSE "crashed"
    /\ UNCHANGED <<cache, call, feed, heap, data, arg, before, urlVars>>

NextPipe ==
    \/ \E t \in Tickers, p \in Periods : Update(t, p)
    \/ ProcessDataCall
    \/ AddTechnicalIndicatorsCall
    \/ CalculateMetricsCall

SpecPipe == InitPipe /\ [][NextPipe]_vars

\* --------------------------------------------- SpecUrl: the redirector
\* Short codes are 1..NumCodes; 0 is a path segment generate_short_code never
\* draws. A URL is a sequence of characters.
Codes == 1..NumCodes

Chars == {"a", " "}

Urls == UNION {[1..n -> Chars] : n \in 0..MaxUrlLen}

\* urllib.parse.quote as RedirectResponse applies it to the Location header:
\* a character outside the safe set becomes its percent escape.
RECURSIVE Quote(_)
Quote(u) ==
    IF u = <<>> THEN <<>>
    ELSE (IF Head(u) = " " THEN <<"%", "2", "0">> ELSE <<Head(u)>>) \o Quote(Tail(u))

Min(S) == CHOOSE x \in S : \A y \in S : x <= y

\* json.dump of a dict: the text of a JSON object, as its members in order.
RECURSIVE Members(_, _)
Members(db, S) ==
    IF S = {} THEN <<>>
    ELSE <<<<Min(S), db[Min(S)]>>>> \o Members(db, S \ {Min(S)})

Dump(db) == [kind |-> "json", pairs |-> Members(db, DOMAIN db)]

DictSet(db, k, v) == [c \in DOMAIN db \cup {k} |-> IF c = k THEN v ELSE db[c]]

\* json.load of an object: a later member replaces an earlier one of its name.
RECURSIVE FromPairs(_, _)
FromPairs(ps, n) ==
    IF n = 0 THEN <<>> ELSE DictSet(FromPairs(ps, n - 1), ps[n][1], ps[n][2])

\* Lines 11-18: the file's mapping, or {} when it is missing or does not parse.
Load(f) == IF f.kind = "json" THEN FromPairs(f.pairs, Len(f.pairs)) ELSE <<>>

Dicts == UNION {[S -> Urls] : S \in SUBSET Codes}

InitUrl ==
    /\ DashIdle
    /\ PipeIdle
    /\ file \in {[kind |-> "missing", pairs |-> <<>>],
                 [kind |-> "corrupt", pairs |-> <<>>]} \cup {Dump(d) : d \in Dicts}
    /\ url_db = Load(file)
    /\ last = [op |-> "start"]
    /\ stored = DOMAIN url_db

\* The process is started again: lines 11-18 run.
Restart ==
    /\ url_db' = Load(file)
    /\ last' = [op |-> "start"]
    /\ UNCHANGED <<file, stored, dashVars, pipeVars>>

\* A variant that writes only the new entry to urls.json.
ShortenUrlWritesEntry(long_url) ==
    \E short_code \in Codes :
        /\ url_db' = DictSet(url_db, short_code, long_url)
        /\ file' = Dump(DictSet(<<>>, short_code, long_url))
        /\ last' = [op |-> "shorten", code |-> short_code, url |-> long_url]
        /\ stored' = stored \cup {short_code}
        /\ UNCHANGED <<dashVars, pipeVars>>

\* POST /shorten/?long_url=...: a random code, no collision check, the whole
\* mapping written to urls.json.
ShortenUrl(long_url) ==
    \E short_code \in Codes :
        /\ url_db' = DictSet(url_db, short_code, long_url)
        /\ file' = Dump(url_db')
        /\ last' = [op |-> "shorten", code |-> short_code, url |-> long_url]
        /\ stored' = stored \cup {short_code}
        /\ UNCHANGED <<dashVars, pipeVars>>

\* GET /{short_code}: url_db.get, and `if long_url:` is false for None and
\* for the empty string. `after` keeps the shorten call this request follows.
RedirectUrl(short_code) ==
    LET long_url == IF short_code \in DOMAIN url_db THEN <<url_db[short_code]>> ELSE <<>>
        after == IF last.op = "shorten" THEN <<last.code, last.url>> ELSE <<>>
    IN  /\ last' = IF long_url # <<>> /\ long_url[1] # <<>>
                   THEN [op |-> "get", code |-> short_code, status |-> 302,
                         location |-> Quote(long_url[1]), after |-> after]
                   ELSE [op |-> "get", code |-> short_code, status |-> 404,
                         location |-> <<>>, after |-> after]
        /\ UNCHANGED <<url_db, file, stored, dashVars, pipeVars>>

NextUrl ==
    \/ \E u \in Urls : ShortenUrl(u)
    \/ \E c \in 0..NumCodes : RedirectUrl(c)
    \/ Restart

SpecUrl == InitUrl /\ [][NextUrl]_vars

\* ============================================================== claims
Missed == call.active /\ ~call.hit

\* The provider raises on the first two requests of the call and answers the
\* third with a non-empty frame.
RecoversOnThird ==
    /\ Missed
    /\ Failed(call.script[1])
    /\ Failed(call.script[2])
    /\ ~Failed(call.script[3])
    /\ ~IsEmpty(call.script[3].frame)

FailsThroughout == Missed /\ \A i \in 1..ScriptLen : Failed(call.script[i])

\* C1 as stated: whenever the provider fails the first two attempts of a
\* fetch and answers the third with valid data, fetch makes three attempts
\* and returns that non-empty series.
C1_RetryRecovers ==
    RecoversOnThird =>
        /\ call.attempts = 3
        /\ call.result = call.script[3].frame

\* C1 as amended: a fetch that reaches the provider issues exactly one
\* request; when that request fails the call ends with the empty series and
\* the "Error fetching data" diagnostic, whatever a later attempt would have
\* been answered with, and it returns the provider's series only when the
\* first request is answered with a non-empty one.
C1_SingleAttempt ==
    Missed =>
        /\ call.attempts = 1
        /\ Failed(call.script[1]) =>
              /\ IsEmpty(call.result)
              /\ call.diag = <<"Error fetching data", call.script[1].err>>
        /\ ~IsEmpty(call.result) =>
              /\ ~Failed(call.script[1])
              /\ call.result = call.script[1].frame

C1_Witness ==
    /\ RecoversOnThird
    /\ call.attempts = 1
    /\ IsEmpty(call.result)

\* C2: for an endpoint that fails throughout, one fetch call issues at most 3
\* provider requests and ends with an empty result and a diagnostic; and no
\* fetch call at all issues more than 3 requests.
C2_BoundedAttempts ==
    /\ call.attempts <= 3
    /\ FailsThroughout =>
          /\ IsEmpty(call.result)
          /\ call.diag # NoDiag
          /\ ~call.raised

C2_Witness ==
    /\ FailsThroughout
    /\ call.attempts = 1
    /\ IsEmpty(call.result)
    /\ call.diag # NoDiag

\* C3: no failure escapes fetch_stock_data: whether the provider call raises
\* or returns zero rows, the call returns the empty series with a diagnostic
\* and nothing propagates to the caller.
C3_NoFaultEscapes ==
    call.active =>
        /\ ~call.raised
        /\ (Missed /\ (Failed(call.script[1]) \/ IsEmpty(call.script[1].frame))) =>
              /\ IsEmpty(call.result)
              /\ call.diag # NoDiag

C3_Witness ==
    /\ Missed
    /\ Failed(call.script[1])
    /\ call.request.range = "start=now-7d,end=now"
    /\ IsEmpty(call.result)
    /\ call.diag # NoDiag
    /\ ~call.raised

\* C7 as stated: a cached result is served only within its time-to-live of
\* 300 time units; a fetch of the key after that goes to the provider.
C7_ServedWithinTTL ==
    (call.active /\ call.hit) => call.age * TickUnits <= 300

\* The series the caller holds after process_data.
Handed == heap[data]

StrictlyIncreasing(f) ==
    \A i \in 1..(Len(f.rows) - 1) : Instant(f, i) < Instant(f, i + 1)

NoNull(f) ==
    \A i \in 1..Len(f.rows) :
        /\ ~IsNaN(f.rows[i].Open) /\ ~IsNaN(f.rows[i].High) /\ ~IsNaN(f.rows[i].Low)
        /\ ~IsNaN(f.rows[i].Close) /\ ~IsNaN(f.rows[i].Volume)

\* The instant of row i of the provider's payload, a naive index read as UTC.
FeedInstant(i) == feed.rows[i].ts - Offset(feed.tz)

\* C4 as stated: the series that fetch plus process_data hands to the caller,
\* if non-empty, has strictly increasing timestamps and no null numeric field.
C4_Normalized ==
    (pc = "processed" /\ ~IsEmpty(Handed)) =>
        /\ StrictlyIncreasing(Handed)
        /\ NoNull(Handed)

\* C4 as amended: the series handed to the caller has the rows of the
\* provider's payload, all of them and in the payload's order, each denoting
\* the instant and carrying the values it had in the payload; so it has
\* strictly increasing timestamps and no null exactly when the payload has.
C4_RowsAsDelivered ==
    pc = "processed" =>
        /\ Len(Handed.rows) = Len(feed.rows)
        /\ \A i \in 1..Len(feed.rows) :
              /\ Instant(Handed, i) = FeedInstant(i)
              /\ [Handed.rows[i] EXCEPT !.ts = 0] = [feed.rows[i] EXCEPT !.ts = 0]
        /\ Handed.tz = "US/Eastern"

C4_Witness ==
    /\ pc = "processed"
    /\ Len(Handed.rows) = 2
    /\ Instant(Handed, 1) >= Instant(Handed, 2)
    /\ IsNaN(Handed.rows[1].Close)
    /\ feed.tz = "naive"

FirstClose == heap[data].rows[1].Close

Measured == pc \in {"measured", "crashed"}

\* C5 as stated: for a non-empty series whose first close is 0,
\* calculate_metrics returns pct_change = 0 and raises nothing.
C5_ZeroFirstClose ==
    (Measured /\ FirstClose = Num(0)) =>
        /\ metrics.state = "ok"
        /\ metrics.pct_change = Num([num |-> 0, den |-> 1])

\* The sum of the numbers of a column, from its last row to its first.
RECURSIVE Total(_)
Total(xs) ==
    IF xs = <<>> THEN 0
    ELSE (IF IsNaN(Head(xs)) THEN 0 ELSE Val(Head(xs))) + Total(Tail(xs))

Numbers(xs) == {Val(xs[i]) : i \in {j \in 1..Len(xs) : ~IsNaN(xs[j])}}

IsGreatest(x, S) == IF S = {} THEN IsNaN(x) ELSE Val(x) \in S /\ \A y \in S : y <= Val(x)

IsLeast(x, S) == IF S = {} THEN IsNaN(x) ELSE Val(x) \in S /\ \A y \in S : Val(x) <= y

\* C6: for a non-empty series whose first close is not 0, calculate_metrics
\* returns the close of the last bar, change = last close - first close,
\* pct_change = change / first close * 100, the greatest high, the least low
\* and the sum of the volumes (NaN cells skipped, NaN closes giving NaN); on a
\* single bar change and pct_change are 0.
C6_Metrics ==
    (Measured /\ FirstClose # Num(0)) =>
        LET f == heap[data]
            n == Len(f.rows)
            lastC == f.rows[n].Close
            known == ~IsNaN(lastC) /\ ~IsNaN(FirstClose)
        IN  /\ metrics.state = "ok"
            /\ metrics.last_close = lastC
            /\ IF known
               THEN /\ metrics.change = Num(Val(lastC) - Val(FirstClose))
                    /\ ~IsNaN(metrics.pct_change)
                    /\ Val(metrics.pct_change).den > 0
                    /\ Val(metrics.pct_change).num * Val(FirstClose)
                          = Val(metrics.change) * 100 * Val(metrics.pct_change).den
               ELSE IsNaN(metrics.change) /\ IsNaN(metrics.pct_change)
            /\ IsGreatest(metrics.high, Numbers(Column(f, "High")))
            /\ IsLeast(metrics.low, Numbers(Column(f, "Low")))
            /\ metrics.volume = Total(Column(f, "Volume"))
            /\ (n = 1 /\ known) =>
                  /\ metrics.change = Num(0)
                  /\ Val(metrics.pct_change).num = 0

C6_Witness ==
    /\ pc = "measured"
    /\ Len(heap[data].rows) = 5
    /\ metrics.last_close = Num(110)
    /\ metrics.change = Num(10)
    /\ metrics.pct_change = Num([num |-> 10, den |-> 1])
    /\ metrics.high = Num(111)
    /\ metrics.low = Num(100)

\* C9 as stated: add_technical_indicators leaves the series it is given as it
\* was before the call.
C9_InputUnchanged ==
    pc = "indicated" => heap[arg] = before

\* C9 as amended: add_technical_indicators sets the columns SMA_20 and EMA_20
\* on the series it is given and returns that same object; the timestamps and
\* the Open, High, Low, Close and Volume values of the series are unchanged.
C9_ChangedInPlace ==
    pc = "indicated" =>
        /\ data = arg
        /\ before.extra = <<>>
        /\ DOMAIN heap[arg].extra = {"SMA_20", "EMA_20"}
        /\ heap[arg] = [before EXCEPT !.extra = heap[arg].extra]

C9_Witness ==
    /\ pc = "indicated"
    /\ data = arg
    /\ Len(heap[arg].rows) = Window
    /\ heap[arg] # before
    /\ IsNaN(heap[arg].extra["SMA_20"][Window - 1])
    /\ ~IsNaN(heap[arg].extra["SMA_20"][Window])
    /\ ~IsNaN(heap[arg].extra["EMA_20"][Window])

\* C8 as stated: POST /shorten with long_url followed by GET of the code it
\* returned yields a 302 redirect whose target is exactly long_url; GET of a
\* code no shorten call has stored yields 404.
C8_RoundTrip ==
    last.op = "get" =>
        /\ (last.after # <<>> /\ last.after[1] = last.code) =>
              /\ last.status = 302
              /\ last.location = last.after[2]
        /\ last.code \notin stored => last.status = 404

\* C10: after every completed shorten call urls.json holds the whole of
\* url_db, and at every moment loading the file gives the mapping in memory.
C10_FileMirrorsDb ==
    /\ Load(file) = url_db
    /\ last.op = "shorten" =>
          /\ file.kind = "json"
          /\ Len(file.pairs) = Cardinality(DOMAIN url_db)
          /\ \A i \in 1..Len(file.pairs) :
                /\ file.pairs[i][1] \in DOMAIN url_db
                /\ file.pairs[i][2] = url_db[file.pairs[i][1]]

C10_Witness ==
    /\ last.op = "shorten"
    /\ Cardinality(DOMAIN url_db) = 2
    /\ Len(file.pairs) = 2
    /\ \E c \in DOMAIN url_db : c # last.code /\ url_db[c] # last.url

====
